---- MODULE Spec2Model ----
(***************************************************************************)
(* A model of the runtime of the tactile ambient instrument:               *)
(*   - the drag/momentum interaction hook (src/src/interaction/useDrag.ts, *)
(*     the onDrag/onCommit version, lines 183-368);                        *)
(*   - the module lifecycle (ModuleInstance in                             *)
(*     src/src/engine/DriftConductor.ts, DroneOscillator in                *)
(*     src/unnamed/part_000).                                              *)
(*                                                                         *)
(* Normalized values and velocities are JavaScript numbers in the source.  *)
(* They are modelled in fixed point: one unit is 1/Scale, products are     *)
(* truncated toward zero.  Pointer positions are whole pixels.             *)
(***************************************************************************)
EXTENDS Integers, Sequences, FiniteSets, TLC

\* ------------------------------------------------------------------------
\* Bounds of the model (not program constants)
\* ------------------------------------------------------------------------
\* pointer-downs, pointer-moves and initialValue updates the environment
\* delivers in one behaviour (pointer-ups and frames are bounded by these)
MaxInputs == 4
\* frames a momentum may run: 0.015 * 0.92^n < 0.0005 from n = 41 on, and
\* 0.015 is above every release velocity of the pointer inputs below
MaxSettleFrames == 43
\* calls made on the module and the drift engine in one behaviour
MaxCalls == 3
\* the clock stops here
MaxNow == 6
\* the clock of the module's life stops here: two fade windows
MaxFadeNow == 12
\* audioEngine.initialize() calls waiting for Tone.start() at one time
MaxPending == 2

\* ------------------------------------------------------------------------
\* Fixed point
\* ------------------------------------------------------------------------
Scale == 1000 * 1000

Abs(x) == IF x < 0 THEN -x ELSE x

\* division truncating toward zero, d > 0
TruncDiv(n, d) == IF n >= 0 THEN n \div d ELSE -((-n) \div d)

Max2(a, b) == IF a >= b THEN a ELSE b
Min2(a, b) == IF a <= b THEN a ELSE b

None == 0 - 1

\* the JavaScript NaN (no frequency of the model is negative)
NaN == 0 - 2

\* ------------------------------------------------------------------------
\* useDrag: configuration and thresholds
\* ------------------------------------------------------------------------
\* sensitivity: the default 0.005 and the Knob's 0.004, per pixel
DefaultSensitivity == 5000
KnobSensitivity == 4000
Sensitivities == {DefaultSensitivity, KnobSensitivity}

\* momentumDecay in hundredths: the hook's default 0.88 and the 0.92 of the
\* earlier variant of the hook
DefaultMomentumDecay == 88
SlowMomentumDecay == 92
MomentumDecays == {DefaultMomentumDecay, SlowMomentumDecay}

\* |velocity| < 0.0005 stops the momentum loop
StopThreshold == 500
\* |velocity| > 0.001 on release starts it
ReleaseThreshold == 1000

\* Pointer positions (clientY).  The handlers read positions only through the
\* differences startY - clientY and lastY - clientY, so every session starts
\* at one position and moves by +1, 0 or -2 pixels around it.
DownYs == {10}
MoveYs == {9, 10, 12}

\* values the owner of the control may supply as initialValue
InitialValues == {0, Scale \div 2, Scale}

VARIABLES
    \* --- useDrag: props
    initialValue, sensitivity, momentum, momentumDecay,
    \* --- useDrag: refs and React state
    valueRef, dragState, velocityRef, lastYRef, animationRef, isDragging,
    \* --- the browser: pending requestAnimationFrame callbacks, mounted flag
    rafPending, mounted,
    \* --- observation of the two output paths
    emitted,         \* calls made by the last step: <<[path, value]>>
    lastOp,          \* the handler the last step ran
    sessionCommits,  \* onCommit calls since the last pointer-down
    lastImmediate,   \* last onDrag value since the last pointer-down, or None
    settleFrames,    \* animation frames run since the last pointer-up
    syncedInSettle,  \* initialValue was re-synced since the last pointer-up
    interrupted,     \* how the last pointer-down found the control
    started,         \* a pointer-down has been seen
    inputs           \* inputs delivered so far

dragVars == <<initialValue, sensitivity, momentum, momentumDecay,
              valueRef, dragState, velocityRef, lastYRef, animationRef,
              isDragging, rafPending, mounted, emitted, lastOp,
              sessionCommits, lastImmediate, settleFrames, syncedInSettle,
              interrupted, started, inputs>>

VARIABLES
    \* --- the clock (Tone.now() and the timer clock), in units of 100 ms
    now,
    \* --- DriftConductor
    lfo, isStarted, startTime, phaseRegistry,
    \* --- ModuleInstance / DroneOscillator fields
    paramValues, isDisposed, isPowered, nodes, oscRefs, baseFrequency,
    driftAnimationId,
    \* --- the audio nodes of the module
    filterTarget,    \* target of filter.frequency
    oscTarget,       \* target of osc1.frequency: base frequency and cents
    oscState,        \* "stopped" or "started"
    outputGain,      \* target of output.gain
    tornDown,        \* nodes torn down, in the order of their teardown
    thrown,          \* nodes whose teardown threw
    escaped,         \* an error left ModuleInstance.dispose
    \* --- the browser: pending timeouts and the drift loop's pending frame
    timers, driftFrame, nextTimerId,
    \* --- observation
    lastCall,        \* the last step: the call made on the module, or the
                     \* timer, frame or tick that ran
    callCount        \* calls made so far

driftVars == <<lfo, isStarted, startTime, phaseRegistry>>

moduleVars == <<now, driftVars, paramValues, isDisposed, isPowered, nodes,
                oscRefs, baseFrequency, driftAnimationId, filterTarget,
                oscTarget, oscState, outputGain, tornDown, thrown, escaped,
                timers, driftFrame, nextTimerId, lastCall, callCount>>

VARIABLES
    \* --- AudioEngine
    audioState,        \* _state
    masterGain,        \* _masterGain: NoGain, or the number of the Tone.Gain
    audioPending,      \* initialize() calls waiting for Tone.start()
    \* --- the module registry
    moduleRegistry,    \* moduleRegistry: id -> instance
    instanceDisposed   \* instances constructed so far -> dispose() was
                       \* called on it

hostVars == <<audioState, masterGain, audioPending, moduleRegistry,
              instanceDisposed>>

vars == <<dragVars, moduleVars, hostVars>>

\* ------------------------------------------------------------------------
\* useDrag: pure helpers
\* ------------------------------------------------------------------------
clamp_NoUpper(v) == Max2(0, v)

\* const clamp = (v) => Math.max(0, Math.min(1, v))
clamp(v) == Max2(0, Min2(Scale, v))

\* velocityRef.current = instantVelocity * 0.3 + velocityRef.current * 0.7
SmoothVelocity(instant, prev) == TruncDiv(3 * instant + 7 * prev, 10)

DecayVelocity_None(v, decay) == v

\* velocityRef.current *= momentumDecay
DecayVelocity(v, decay) == TruncDiv(v * decay, 100)

\* Math.abs(velocityRef.current) < 0.0005
MomentumSettled(v) == Abs(v) < StopThreshold

ReleaseWithMomentum_IgnoresFlag(m, v) == Abs(v) > ReleaseThreshold

\* momentum && Math.abs(velocityRef.current) > 0.001
ReleaseWithMomentum(m, v) == m /\ Abs(v) > ReleaseThreshold

\* requestAnimationFrame returns a fresh non-zero handle; only equality of
\* handles matters, so the smallest handle that is neither pending nor still
\* held in animationRef stands for "a handle never seen before".
FrameIds == 1 .. 3
NewFrameId == CHOOSE i \in FrameIds :
                 /\ i \notin rafPending \cup {animationRef}
                 /\ \A j \in FrameIds :
                      j \notin rafPending \cup {animationRef} => i <= j

Drag(v) == [path |-> "drag", value |-> v]
Commit(v) == [path |-> "commit", value |-> v]

\* the states of a control
Dragging == dragState.isDragging
Settling == ~dragState.isDragging /\ rafPending # {}
Idle == ~dragState.isDragging /\ rafPending = {}

\* ------------------------------------------------------------------------
\* useDrag: handlers
\* ------------------------------------------------------------------------
CancelAnimation_Keep(ref, pending) == pending

\* if (animationRef.current) { cancelAnimationFrame(animationRef.current) ... }
CancelAnimation(ref, pending) == IF ref # 0 THEN pending \ {ref} ELSE pending

MoveCalls_AlsoCommit(newValue) == <<Drag(newValue), Commit(newValue)>>

\* what handleDragMove calls: onDrag(newValue), nothing else
MoveCalls(newValue) == <<Drag(newValue)>>

DragEndCalls_AlwaysCommit(withMomentum, value) == <<Commit(value)>>

\* what handleDragEnd calls: onCommit(valueRef.current) unless momentum starts
DragEndCalls(withMomentum, value) ==
    IF withMomentum THEN <<>> ELSE <<Commit(value)>>

\* useEffect(() => { if (!dragState.current.isDragging) valueRef.current =
\* initialValue }, [initialValue])
SyncedValue(newInitial) ==
    IF ~dragState.isDragging THEN newInitial ELSE valueRef

\* handleDragStart(clientY), with the re-render that attaches the window
\* listeners (setIsDragging(true))
handleDragStart(clientY) ==
    /\ rafPending' = CancelAnimation(animationRef, rafPending)
    /\ animationRef' = 0
    /\ dragState' = [isDragging |-> TRUE, startY |-> clientY,
                     startValue |-> valueRef]
    /\ lastYRef' = clientY
    /\ velocityRef' = 0
    /\ isDragging' = TRUE
    /\ emitted' = <<>>
    /\ UNCHANGED valueRef

\* handleDragMove(clientY)
handleDragMove(clientY) ==
    IF ~dragState.isDragging
    THEN /\ emitted' = <<>>
         /\ UNCHANGED <<valueRef, velocityRef, lastYRef>>
    ELSE LET deltaY == dragState.startY - clientY
             newValue == clamp(dragState.startValue + deltaY * sensitivity)
             instantVelocity == (lastYRef - clientY) * sensitivity
         IN  /\ velocityRef' = SmoothVelocity(instantVelocity, velocityRef)
             /\ lastYRef' = clientY
             /\ valueRef' = newValue
             /\ emitted' = MoveCalls(newValue)

\* handleDragEnd(), with the re-render that detaches the window listeners
handleDragEnd ==
    IF ~dragState.isDragging
    THEN /\ emitted' = <<>>
         /\ UNCHANGED <<dragState, isDragging, animationRef, rafPending>>
    ELSE LET withMomentum == ReleaseWithMomentum(momentum, velocityRef)
         IN  /\ dragState' = [dragState EXCEPT !.isDragging = FALSE]
             /\ isDragging' = FALSE
             /\ IF withMomentum
                THEN /\ animationRef' = NewFrameId
                     /\ rafPending' = rafPending \cup {NewFrameId}
                ELSE UNCHANGED <<animationRef, rafPending>>
             /\ emitted' = DragEndCalls(withMomentum, valueRef)

\* animateMomentum, run by the browser for the pending frame id
animateMomentum(id) ==
    IF MomentumSettled(velocityRef)
    THEN /\ velocityRef' = 0
         /\ emitted' = <<Commit(valueRef)>>
         /\ rafPending' = rafPending \ {id}
         /\ UNCHANGED <<valueRef, animationRef>>
    ELSE LET newValue == clamp(valueRef + velocityRef)
             pendingNow == rafPending \ {id}
             fresh == CHOOSE i \in FrameIds :
                        /\ i \notin pendingNow \cup {animationRef}
                        /\ \A j \in FrameIds :
                             j \notin pendingNow \cup {animationRef} => i <= j
         IN  /\ valueRef' = newValue
             /\ emitted' = <<Drag(newValue)>>
             /\ velocityRef' = DecayVelocity(velocityRef, momentumDecay)
             /\ animationRef' = fresh
             /\ rafPending' = pendingNow \cup {fresh}

\* ------------------------------------------------------------------------
\* useDrag: observation of the calls a step made
\* ------------------------------------------------------------------------
IsCommit(e) == e.path = "commit"
IsDrag(e) == e.path = "drag"

CommitsIn(calls) == Len(SelectSeq(calls, IsCommit))
LastDragIn(calls, before) ==
    LET d == SelectSeq(calls, IsDrag)
    IN  IF Len(d) = 0 THEN before ELSE d[Len(d)].value

propVars == <<initialValue, sensitivity, momentum, momentumDecay>>

\* ------------------------------------------------------------------------
\* useDrag: steps of the environment
\* ------------------------------------------------------------------------
\* onMouseDown / onTouchStart
PointerDown(y) ==
    /\ UNCHANGED <<moduleVars, hostVars>>
    /\ mounted
    /\ inputs < MaxInputs
    /\ handleDragStart(y)
    /\ interrupted' = [settling |-> Settling, synced |-> syncedInSettle,
                       frames |-> settleFrames, last |-> lastImmediate]
    /\ sessionCommits' = 0
    /\ lastImmediate' = None
    /\ settleFrames' = 0
    /\ syncedInSettle' = FALSE
    /\ lastOp' = "down"
    /\ started' = TRUE
    /\ inputs' = inputs + 1
    /\ UNCHANGED <<propVars, mounted>>

\* window mousemove / touchmove, delivered while the listeners are attached
PointerMove(y) ==
    /\ UNCHANGED <<moduleVars, hostVars>>
    /\ mounted
    /\ isDragging
    /\ inputs < MaxInputs
    /\ handleDragMove(y)
    /\ sessionCommits' = sessionCommits + CommitsIn(emitted')
    /\ lastImmediate' = LastDragIn(emitted', lastImmediate)
    /\ lastOp' = "move"
    /\ inputs' = inputs + 1
    /\ UNCHANGED <<propVars, dragState, animationRef, isDragging, rafPending,
                   mounted, settleFrames, syncedInSettle, interrupted,
                   started>>

\* window mouseup / touchend, delivered while the listeners are attached
PointerUp ==
    /\ UNCHANGED <<moduleVars, hostVars>>
    /\ mounted
    /\ isDragging
    /\ handleDragEnd
    /\ sessionCommits' = sessionCommits + CommitsIn(emitted')
    /\ lastOp' = "up"
    /\ UNCHANGED <<propVars, valueRef, velocityRef, lastYRef, mounted,
                   lastImmediate, settleFrames, syncedInSettle, interrupted,
                   started, inputs>>

\* the browser runs a pending animation frame callback
AnimationFrame(id) ==
    /\ UNCHANGED <<moduleVars, hostVars>>
    /\ id \in rafPending
    /\ animateMomentum(id)
    /\ sessionCommits' = sessionCommits + CommitsIn(emitted')
    /\ lastImmediate' = LastDragIn(emitted', lastImmediate)
    /\ settleFrames' = Min2(settleFrames + 1, MaxSettleFrames + 1)
    /\ lastOp' = "frame"
    /\ UNCHANGED <<propVars, dragState, lastYRef, isDragging, mounted,
                   syncedInSettle, interrupted, started, inputs>>

\* the owner re-renders the control with another initialValue
InitialValueChange(v) ==
    /\ UNCHANGED <<moduleVars, hostVars>>
    /\ mounted
    /\ inputs < MaxInputs
    /\ v # initialValue
    /\ initialValue' = v
    /\ valueRef' = SyncedValue(v)
    /\ syncedInSettle' = (syncedInSettle \/ Settling)
    /\ emitted' = <<>>
    /\ lastOp' = "sync"
    /\ inputs' = inputs + 1
    /\ UNCHANGED <<sensitivity, momentum, momentumDecay, dragState,
                   velocityRef, lastYRef, animationRef, isDragging,
                   rafPending, mounted, sessionCommits, lastImmediate,
                   settleFrames, interrupted, started>>

\* the control is unmounted: both effect cleanups run
Unmount ==
    /\ UNCHANGED <<moduleVars, hostVars>>
    /\ mounted
    /\ mounted' = FALSE
    /\ rafPending' = CancelAnimation(animationRef, rafPending)
    /\ isDragging' = FALSE
    /\ emitted' = <<>>
    /\ lastOp' = "unmount"
    /\ UNCHANGED <<propVars, valueRef, dragState, velocityRef, lastYRef,
                   animationRef, sessionCommits, lastImmediate, settleFrames,
                   syncedInSettle, interrupted, started, inputs>>

InitDrag ==
    /\ initialValue \in InitialValues
    /\ sensitivity \in Sensitivities
    /\ momentum \in BOOLEAN
    /\ momentumDecay \in MomentumDecays
    /\ valueRef = initialValue
    /\ dragState = [isDragging |-> FALSE, startY |-> 0, startValue |-> 0]
    /\ velocityRef = 0
    /\ lastYRef = 0
    /\ animationRef = 0
    /\ isDragging = FALSE
    /\ rafPending = {}
    /\ mounted = TRUE
    /\ emitted = <<>>
    /\ lastOp = "init"
    /\ sessionCommits = 0
    /\ lastImmediate = None
    /\ settleFrames = 0
    /\ syncedInSettle = FALSE
    /\ interrupted = [settling |-> FALSE, synced |-> FALSE, frames |-> 0,
                      last |-> None]
    /\ started = FALSE
    /\ inputs = 0

NextDrag ==
    \/ \E y \in DownYs : PointerDown(y)
    \/ \E y \in MoveYs : PointerMove(y)
    \/ PointerUp
    \/ \E id \in FrameIds : AnimationFrame(id)
    \/ \E v \in InitialValues : InitialValueChange(v)
    \/ Unmount


\* ------------------------------------------------------------------------
\* Numeric tables.  Math.sin and Math.pow are evaluated by linear
\* interpolation in tables of exact values rounded to 1/1000.
\* ------------------------------------------------------------------------
\* sin(2 pi p) for p = 0, 25, .. 250 thousandths of a turn, in 1/1000
SinQuarter == <<0, 156, 309, 454, 588, 707, 809, 891, 951, 988, 1000>>

\* x^0.7 for x = 0, 0.5, .. 20, in 1/1000
PowTable == <<0, 616, 1000, 1328, 1625, 1899, 2158, 2404, 2639, 2866, 3085,
              3298, 3505, 3707, 3905, 4098, 4287, 4473, 4656, 4835, 5012,
              5186, 5358, 5527, 5694, 5859, 6022, 6183, 6343, 6501, 6657,
              6811, 6964, 7116, 7266, 7415, 7563, 7709, 7855, 7999, 8142>>

\* 200 * 15^v for v = 0, 0.05, .. 1, in mHz
WarmthTable == <<200000, 229000, 262204, 300223, 343754, 393598, 450669,
                 516015, 590835, 676505, 774597, 886911, 1015511, 1162758,
                 1331355, 1524398, 1745432, 1998516, 2288296, 2620093,
                 3000000>>

\* table[1] is the value at 0, entries are `step` apart; x >= 0
Interpolate(table, step, x) ==
    LET k == Min2(x \div step, Len(table) - 2)
        t == x - k * step
    IN  table[k + 1] + TruncDiv(t * (table[k + 2] - table[k + 1]), step)

\* Math.sin(phase * Math.PI * 2), phase in thousandths of a turn, in 1/1000
Sin(phase) ==
    LET half == phase % 500
        r == IF half <= 250 THEN half ELSE 500 - half
        v == Interpolate(SinQuarter, 25, r)
    IN  IF phase % 1000 < 500 THEN v ELSE -v

\* Math.pow(x, 0.7), x >= 0 in millicents, in 1/1000
Pow07(x) == Interpolate(PowTable, 500, x)

Sign(x) == IF x > 0 THEN 1 ELSE IF x < 0 THEN -1 ELSE 0

\* ------------------------------------------------------------------------
\* DroneOscillator: mapping functions
\* ------------------------------------------------------------------------
\* const curve = [40, 55, 70, 85, 100, 120, 145, 175, 200]
PitchCurve == <<40, 55, 70, 85, 100, 120, 145, 175, 200>>

\* mapPitch(value): value in 1/Scale, result in mHz
mapPitch(value) ==
    LET index == value * (Len(PitchCurve) - 1)
        lower == index \div Scale
        t == index - lower * Scale
        upper == IF t = 0 THEN lower ELSE lower + 1
    IN  IF lower < 0 \/ upper > Len(PitchCurve) - 1
        THEN NaN  \* curve[index] is undefined outside the curve
        ELSE IF lower = upper
        THEN PitchCurve[lower + 1] * 1000
        ELSE PitchCurve[lower + 1] * 1000
               + TruncDiv(t * (PitchCurve[upper + 1] - PitchCurve[lower + 1]),
                          1000)

\* mapWarmth(value) = 200 * (3000 / 200)^value, in mHz
mapWarmth(value) ==
    LET step == Scale \div 20
        k == Max2(0, Min2(value \div step, Len(WarmthTable) - 2))
        t == value - k * step
        diff == WarmthTable[k + 2] - WarmthTable[k + 1]
    IN  WarmthTable[k + 1] + TruncDiv((diff \div 1000) * t, step \div 1000)

DeclaredNames == {"pitch", "warmth", "drift"}

\* DRONE_OSCILLATOR_CONFIG.params[..].defaultValue
PitchDefault == Scale \div 4
WarmthDefault == 2 * (Scale \div 5)
DriftDefault == 3 * (Scale \div 10)
DefaultParams ==
    [n \in DeclaredNames |->
        CASE n = "pitch" -> PitchDefault
          [] n = "warmth" -> WarmthDefault
          [] n = "drift" -> DriftDefault]

\* config.map(clamped) of the parameter called name
MapParam(name, value) ==
    CASE name = "pitch" -> mapPitch(value)
      [] name = "warmth" -> mapWarmth(value)
      [] OTHER -> value

\* private baseFrequency: number = 70 (Hz; baseFrequency is kept in mHz)
InitialBaseFrequency == 70

\* the module's id, and the ids other oscillators register under
ModuleId == "drone-1"

\* ------------------------------------------------------------------------
\* DriftConductor
\* ------------------------------------------------------------------------
\* phase advance of the 0.02 Hz LFO per clock unit (100 ms), in 1/1000 turn
PhasePerTick == 2

\* Math.random() * 0.1 - 0.05 lies in [-0.05, 0.05): its extremes, in 1/1000
\* turn
Jitters == {-50, 49}

RunawayGuard_Open(result) == result

\* Math.max(-10, Math.min(10, result)), in millicents
RunawayGuard(result) == Max2(-10000, Min2(10000, result))

\* private softSnapToInterval(cents), in millicents
softSnapToInterval(cents) ==
    LET Pull(center, strength) ==
            LET distance == cents - center
            IN  Sign(distance) * TruncDiv(strength * Pow07(Abs(distance)), 1000)
        result == cents - Pull(0, 300) - Pull(5000, 150) - Pull(-5000, 150)
    IN  RunawayGuard(result)

\* getDriftCents(id, maxCents, depthScale): maxCents in cents, depthScale in
\* 1/Scale, result in millicents
getDriftCents(id, maxCents, depthScale) ==
    IF ~isStarted THEN 0
    ELSE LET phaseOffset == IF id \in DOMAIN phaseRegistry
                            THEN phaseRegistry[id] ELSE 0
             elapsed == now - startTime
             basePhase == (elapsed * PhasePerTick) % 1000
             adjustedPhase == (basePhase + phaseOffset) % 1000
             rawValue == Sin(adjustedPhase)
             rawCents == TruncDiv(rawValue * maxCents * (depthScale \div 1000),
                                  1000)
         IN  softSnapToInterval(rawCents)

registerOscillator_Reassigns(registry, id, jitter) ==
    LET existingCount == Cardinality(DOMAIN registry)
        basePhase == (existingCount * 330) % 1000
    IN  [x \in DOMAIN registry \cup {id} |->
            IF x = id THEN (basePhase + jitter + 1000) % 1000
            ELSE registry[x]]

\* registerOscillator(id), with the jitter Math.random() drew
registerOscillator(registry, id, jitter) ==
    IF id \in DOMAIN registry THEN registry
    ELSE LET existingCount == Cardinality(DOMAIN registry)
             basePhase == (existingCount * 330) % 1000
         IN  [x \in DOMAIN registry \cup {id} |->
                 IF x = id THEN (basePhase + jitter + 1000) % 1000
                 ELSE registry[x]]

unregisterOscillator_Keeps(registry, id) == registry

\* unregisterOscillator(id)
unregisterOscillator(registry, id) ==
    [x \in DOMAIN registry \ {id} |-> registry[x]]

\* ------------------------------------------------------------------------
\* ModuleInstance / DroneOscillator
\* ------------------------------------------------------------------------
clamp01_NoLower(value) == Min2(Scale, value)

\* const clamped = Math.max(0, Math.min(1, value))
clamp01(value) == Max2(0, Min2(Scale, value))

\* this.paramValues.set(name, value)
MapSet(map, name, value) ==
    [x \in DOMAIN map \cup {name} |-> IF x = name THEN value ELSE map[x]]

\* the empty Map
EmptyMap == [x \in {} |-> 0]

\* getParam(name): this.paramValues.get(name) ?? 0
getParam(name) ==
    IF name \in DOMAIN paramValues THEN paramValues[name] ELSE 0

\* the part of the module that parameter writes touch
ParamState ==
    [pv |-> paramValues, base |-> baseFrequency, filt |-> filterTarget,
     osc |-> oscTarget]

\* private updateOscillatorFrequencies(), on the state st
updateOscillatorFrequencies(st) ==
    IF ~oscRefs THEN st
    ELSE LET driftAmount == IF "drift" \in DOMAIN st.pv
                            THEN st.pv["drift"] ELSE DriftDefault
             driftCents == getDriftCents(ModuleId, 5, driftAmount)
         IN  [st EXCEPT !.osc = [base |-> st.base, cents |-> driftCents]]

\* setParamImmediate(name, value), on the state st
setParamImmediate(st, name, value) ==
    LET clamped == clamp01(value)
        stored == [st EXCEPT !.pv = MapSet(st.pv, name, clamped)]
    IN  IF name \notin DeclaredNames THEN stored
        ELSE LET mappedValue == MapParam(name, clamped)
             IN  CASE name = "pitch" ->
                        updateOscillatorFrequencies(
                            [stored EXCEPT !.base = mappedValue])
                   [] name = "warmth" ->
                        IF oscRefs
                        THEN [stored EXCEPT !.filt = mappedValue]
                        ELSE stored
                   [] OTHER -> stored

\* restoreParams(params): setParamImmediate for each entry, in order
RECURSIVE restoreParams(_, _)
restoreParams(st, entries) ==
    IF entries = <<>> THEN st
    ELSE restoreParams(setParamImmediate(st, entries[1][1], entries[1][2]),
                       Tail(entries))

\* setTimeout(callback, 600): the 600 ms timers of the module
FadeDelay == 6
\* setTimeout(..., 100) of the drift loop
DriftDelay == 1

Timer(kind) == [id |-> nextTimerId, kind |-> kind, due |-> now + (IF kind = "drift" THEN DriftDelay ELSE FadeDelay)]

\* the nodes in creation order:
\* this.nodes = [osc1, osc2, osc3, filter, gain, output]
CreatedNodes == <<"osc1", "osc2", "osc3", "filter", "gain", "output">>

Reverse_Forward(seq) == seq

\* for (let i = this.nodes.length - 1; i >= 0; i--)
Reverse(seq) == [i \in 1 .. Len(seq) |-> seq[Len(seq) + 1 - i]]

\* the engine's fields
DriftState ==
    [started |-> isStarted, startTime |-> startTime,
     registry |-> phaseRegistry]

\* a step as the claims observe it: the call with its arguments (for a
\* query, value is what it returned) and the state it found
Snapshot(op, name, value) ==
    [op |-> op, name |-> name, value |-> value, before |-> ParamState,
     wasDisposed |-> isDisposed, wasPowered |-> isPowered,
     nodesBefore |-> nodes, oscBefore |-> oscState,
     scheduled |-> nextTimerId, drift |-> DriftState]

paramVars == <<paramValues, baseFrequency, filterTarget, oscTarget>>

\* initialize(): by createDroneOscillator right after construction, or by a
\* caller on an instance that was disposed
Initialize(jitter) ==
    /\ ~oscRefs \/ isDisposed
    /\ callCount < MaxCalls
    /\ oscRefs' = TRUE
    /\ oscTarget' = [base |-> baseFrequency, cents |-> 0]
    /\ filterTarget' = mapWarmth(IF "warmth" \in DOMAIN paramValues
                                 THEN paramValues["warmth"]
                                 ELSE WarmthDefault)
    /\ outputGain' = 0
    /\ nodes' = CreatedNodes
    /\ phaseRegistry' = registerOscillator(phaseRegistry, ModuleId, jitter)
    /\ driftFrame' = TRUE
    /\ lastCall' = Snapshot("initialize", "", 0)
    /\ callCount' = callCount + 1
    /\ oscState' = "stopped"
    /\ UNCHANGED <<now, lfo, isStarted, startTime, paramValues, isDisposed,
                   isPowered, baseFrequency, driftAnimationId,
                   tornDown, timers, nextTimerId>>
    /\ UNCHANGED <<dragVars, hostVars, thrown, escaped>>

ApplyParams(st) ==
    /\ paramValues' = st.pv
    /\ baseFrequency' = st.base
    /\ filterTarget' = st.filt
    /\ oscTarget' = st.osc

\* module.setParamImmediate(name, value)
SetParamImmediate(name, value) ==
    /\ callCount < MaxCalls
    /\ ApplyParams(setParamImmediate(ParamState, name, value))
    /\ lastCall' = Snapshot("setParamImmediate", name, value)
    /\ callCount' = callCount + 1
    /\ UNCHANGED <<now, driftVars, isDisposed, isPowered, nodes, oscRefs,
                   driftAnimationId, oscState, outputGain, tornDown, timers,
                   driftFrame, nextTimerId>>
    /\ UNCHANGED <<dragVars, hostVars, thrown, escaped>>

\* module.restoreParams(params)
RestoreParams(entries) ==
    /\ callCount < MaxCalls
    /\ ApplyParams(restoreParams(ParamState, entries))
    /\ lastCall' = Snapshot("restoreParams", "", 0)
    /\ callCount' = callCount + 1
    /\ UNCHANGED <<now, driftVars, isDisposed, isPowered, nodes, oscRefs,
                   driftAnimationId, oscState, outputGain, tornDown, timers,
                   driftFrame, nextTimerId>>
    /\ UNCHANGED <<dragVars, hostVars, thrown, escaped>>

\* DroneOscillator.stop(): fade out, stop the oscillators after the fade
DroneStop ==
    IF ~oscRefs
    THEN UNCHANGED <<outputGain, timers, nextTimerId>>
    ELSE /\ outputGain' = 0
         /\ timers' = Append(timers, Timer("stopOscillators"))
         /\ nextTimerId' = nextTimerId + 1

\* DroneOscillator.start(): start the oscillators and fade in
DroneStart ==
    IF ~oscRefs
    THEN UNCHANGED <<outputGain, oscState>>
    ELSE /\ oscState' = "started"
         /\ outputGain' = 1

\* setPower(on): this._isPowered = on; this.onPowerChange(on)
SetPower(on) ==
    /\ callCount < MaxCalls
    /\ isPowered' = on
    /\ IF on
       THEN DroneStart /\ UNCHANGED <<timers, nextTimerId>>
       ELSE DroneStop /\ UNCHANGED oscState
    /\ lastCall' = Snapshot("setPower", "", IF on THEN 1 ELSE 0)
    /\ callCount' = callCount + 1
    /\ UNCHANGED <<now, driftVars, paramVars, isDisposed, nodes, oscRefs,
                   driftAnimationId, tornDown, driftFrame>>
    /\ UNCHANGED <<dragVars, hostVars, thrown, escaped>>

\* DroneOscillator.dispose(): stop the drift loop's timer, unregister, fade
\* out, and schedule super.dispose() after the fade
Dispose ==
    /\ callCount < MaxCalls
    /\ driftAnimationId' = 0
    /\ phaseRegistry' = unregisterOscillator(phaseRegistry, ModuleId)
    /\ LET kept == SelectSeq(timers, LAMBDA t : t.id # driftAnimationId)
           stop == IF oscRefs
                   THEN <<[id |-> nextTimerId, kind |-> "stopOscillators",
                           due |-> now + FadeDelay]>>
                   ELSE <<>>
           n == nextTimerId + Len(stop)
       IN  /\ timers' = kept \o stop
                          \o <<[id |-> n, kind |-> "superDispose",
                                due |-> now + FadeDelay]>>
           /\ nextTimerId' = n + 1
    /\ outputGain' = IF oscRefs THEN 0 ELSE outputGain
    /\ lastCall' = Snapshot("dispose", "", 0)
    /\ callCount' = callCount + 1
    /\ UNCHANGED <<now, lfo, isStarted, startTime, paramVars, isDisposed,
                   isPowered, nodes, oscRefs, oscState, tornDown, driftFrame>>
    /\ UNCHANGED <<dragVars, hostVars, thrown, escaped>>

\* a timer may fire when it is due and no timer set before it is due earlier
\* or at the same time
Fires(i) ==
    /\ timers[i].due <= now
    /\ \A j \in 1 .. Len(timers) :
          j # i => \/ timers[j].due > timers[i].due
                   \/ (timers[j].due = timers[i].due /\ j > i)

Without(seq, i) == [j \in 1 .. Len(seq) - 1 |-> IF j < i THEN seq[j] ELSE seq[j + 1]]

\* the timer of stop(): this.osc1?.stop() ...
StopOscillatorsTimer(i) ==
    /\ Fires(i)
    /\ timers[i].kind = "stopOscillators"
    /\ timers' = Without(timers, i)
    /\ oscState' = "stopped"
    /\ lastCall' = Snapshot("stopOscillatorsTimer", "", 0)
    /\ UNCHANGED <<now, driftVars, paramVars, isDisposed, isPowered, nodes,
                   oscRefs, driftAnimationId, outputGain, tornDown,
                   driftFrame, nextTimerId, callCount>>
    /\ UNCHANGED <<dragVars, hostVars, thrown, escaped>>

\* the nodes whose disconnect() or dispose() throws in a teardown (a node
\* that something else disposed before)
ThrowingNodes == {{}, {"filter", "output"}}

AlreadyDisposed_Never(flag) == FALSE

\* if (this._isDisposed) return
AlreadyDisposed(flag) == flag

ErrorLeavesLoop_Rethrown(threw) == threw

\* try { node.disconnect(); node.dispose() } catch (e) { }: whether an error
\* thrown by the node leaves the loop
ErrorLeavesLoop(threw) == FALSE

\* the teardown loop over `order`: the nodes torn down, the nodes that
\* threw, and whether an error ended the loop
RECURSIVE teardown(_, _)
teardown(order, bad) ==
    IF order = <<>>
    THEN [done |-> <<>>, threw |-> {}, error |-> FALSE]
    ELSE IF order[1] \in bad
    THEN IF ErrorLeavesLoop(TRUE)
         THEN [done |-> <<>>, threw |-> {order[1]}, error |-> TRUE]
         ELSE LET rest == teardown(Tail(order), bad)
              IN  [rest EXCEPT !.threw = @ \cup {order[1]}]
    ELSE LET rest == teardown(Tail(order), bad)
         IN  [rest EXCEPT !.done = <<order[1]>> \o @]

\* the timer of dispose(): super.dispose(), i.e. ModuleInstance.dispose()
SuperDisposeTimer(i) ==
    /\ Fires(i)
    /\ timers[i].kind = "superDispose"
    /\ timers' = Without(timers, i)
    /\ IF AlreadyDisposed(isDisposed)
       THEN UNCHANGED <<isDisposed, tornDown, nodes, paramValues, thrown,
                        escaped>>
       ELSE \E bad \in ThrowingNodes :
              LET r == teardown(Reverse(nodes), bad)
              IN  /\ isDisposed' = TRUE
                  /\ tornDown' = tornDown \o r.done
                  /\ thrown' = r.threw
                  /\ escaped' = r.error
                  /\ IF r.error
                     THEN UNCHANGED <<nodes, paramValues>>
                     ELSE /\ nodes' = <<>>
                          /\ paramValues' = EmptyMap
    /\ lastCall' = Snapshot("superDisposeTimer", "", 0)
    /\ UNCHANGED <<now, driftVars, isPowered, oscRefs, baseFrequency,
                   driftAnimationId, filterTarget, oscTarget, oscState,
                   outputGain, driftFrame, nextTimerId, callCount>>
    /\ UNCHANGED <<dragVars, hostVars>>

\* the drift loop's frame: animate()
DriftFrame ==
    /\ driftFrame
    /\ driftFrame' = FALSE
    /\ IF isDisposed
       THEN UNCHANGED <<paramVars, driftAnimationId, timers, nextTimerId>>
       ELSE /\ ApplyParams(updateOscillatorFrequencies(ParamState))
            /\ driftAnimationId' = nextTimerId
            /\ timers' = Append(timers, Timer("drift"))
            /\ nextTimerId' = nextTimerId + 1
    /\ lastCall' = Snapshot("driftFrame", "", 0)
    /\ UNCHANGED <<now, driftVars, isDisposed, isPowered, nodes, oscRefs,
                   oscState, outputGain, tornDown, callCount>>
    /\ UNCHANGED <<dragVars, hostVars, thrown, escaped>>

\* the drift loop's timeout: requestAnimationFrame(animate)
DriftTimer(i) ==
    /\ Fires(i)
    /\ timers[i].kind = "drift"
    /\ timers' = Without(timers, i)
    /\ driftFrame' = TRUE
    /\ lastCall' = Snapshot("driftTimer", "", 0)
    /\ UNCHANGED <<now, driftVars, paramVars, isDisposed, isPowered, nodes,
                   oscRefs, driftAnimationId, oscState, outputGain, tornDown,
                   nextTimerId, callCount>>
    /\ UNCHANGED <<dragVars, hostVars, thrown, escaped>>

\* driftConductor.initialize()
DriftInitialize ==
    /\ callCount < MaxCalls
    /\ ~lfo
    /\ lfo' = TRUE
    /\ callCount' = callCount + 1
    /\ lastCall' = Snapshot("driftInitialize", "", 0)
    /\ UNCHANGED <<now, isStarted, startTime, phaseRegistry, paramVars,
                   isDisposed, isPowered, nodes, oscRefs, driftAnimationId,
                   oscState, outputGain, tornDown, timers, driftFrame,
                   nextTimerId>>
    /\ UNCHANGED <<dragVars, hostVars, thrown, escaped>>

start_Restamps(d, ready, t) ==
    IF ~ready THEN d ELSE [d EXCEPT !.started = TRUE, !.startTime = t]

start_KeepsStamp(d, ready, t) ==
    IF d.started \/ ~ready THEN d ELSE [d EXCEPT !.started = TRUE]

\* start() on the engine's fields d at time t; ready: this.lfo is set
start(d, ready, t) ==
    IF d.started \/ ~ready THEN d
    ELSE [d EXCEPT !.started = TRUE, !.startTime = t]

stop_ClearsRegistry(d, ready) ==
    IF ~d.started \/ ~ready THEN d
    ELSE [d EXCEPT !.started = FALSE, !.registry = EmptyMap]

\* stop() on the engine's fields d
stop(d, ready) ==
    IF ~d.started \/ ~ready THEN d ELSE [d EXCEPT !.started = FALSE]

\* driftConductor.start()
DriftStart ==
    /\ callCount < MaxCalls
    /\ LET d == start(DriftState, lfo, now)
       IN  isStarted' = d.started /\ startTime' = d.startTime
    /\ callCount' = callCount + 1
    /\ lastCall' = Snapshot("driftStart", "", 0)
    /\ UNCHANGED <<now, lfo, phaseRegistry, paramVars, isDisposed, isPowered,
                   nodes, oscRefs, driftAnimationId, oscState, outputGain,
                   tornDown, timers, driftFrame, nextTimerId>>
    /\ UNCHANGED <<dragVars, hostVars, thrown, escaped>>

\* what the rest of this section leaves alone: the module
moduleOnlyVars == <<paramVars, isDisposed, isPowered, nodes, oscRefs,
                    driftAnimationId, oscState, outputGain, tornDown, thrown,
                    escaped, timers, driftFrame, nextTimerId, callCount>>

\* ids oscillators register under, and ids callers query
OscillatorIds == {ModuleId, "drone-2", "drone-3"}
QueryIds == OscillatorIds \cup {"unknown-id"}

disposeEngine_KeepsStarted(d) == [d EXCEPT !.registry = EmptyMap]

\* dispose() on the engine's fields d (the LFO and the signal are released
\* and set to null by the step)
disposeEngine(d) == [d EXCEPT !.started = FALSE, !.registry = EmptyMap]

\* driftConductor.dispose()
DriftDispose ==
    /\ LET d == disposeEngine(DriftState)
       IN  /\ isStarted' = d.started
           /\ startTime' = d.startTime
           /\ phaseRegistry' = d.registry
    /\ lfo' = FALSE
    /\ lastCall' = Snapshot("driftDispose", "", 0)
    /\ UNCHANGED <<now, moduleOnlyVars, dragVars, hostVars>>

getDriftCentsEffect_Registers(d, id) ==
    IF id \in DOMAIN d.registry THEN d
    ELSE [d EXCEPT !.registry = MapSet(d.registry, id, 0)]

\* the engine's fields after getDriftCents(id, ..) on the fields d: the
\* function assigns no field, and this.phaseRegistry.get(id) ?? 0 adds no
\* entry
getDriftCentsEffect(d, id) == d

\* driftConductor.stop()
DriftStop ==
    /\ LET d == stop(DriftState, lfo)
       IN  /\ isStarted' = d.started
           /\ startTime' = d.startTime
           /\ phaseRegistry' = d.registry
    /\ lastCall' = Snapshot("driftStop", "", 0)
    /\ UNCHANGED <<now, lfo, moduleOnlyVars, dragVars, hostVars>>

\* driftConductor.registerOscillator(id); value is the offset it returns
RegisterOscillator(id, jitter) ==
    /\ phaseRegistry' = registerOscillator(phaseRegistry, id, jitter)
    /\ lastCall' = Snapshot("registerOscillator", id, phaseRegistry'[id])
    /\ UNCHANGED <<now, lfo, isStarted, startTime, moduleOnlyVars, dragVars, hostVars>>

\* driftConductor.unregisterOscillator(id)
UnregisterOscillator(id) ==
    /\ phaseRegistry' = unregisterOscillator(phaseRegistry, id)
    /\ lastCall' = Snapshot("unregisterOscillator", id, 0)
    /\ UNCHANGED <<now, lfo, isStarted, startTime, moduleOnlyVars, dragVars, hostVars>>

\* driftConductor.getDriftCents(id, 5, 1); value is the cents it returns,
\* in millicents
GetDriftCents(id) ==
    /\ lastCall' = Snapshot("getDriftCents", id, getDriftCents(id, 5, Scale))
    /\ LET d == getDriftCentsEffect(DriftState, id)
       IN  /\ isStarted' = d.started
           /\ startTime' = d.startTime
           /\ phaseRegistry' = d.registry
    /\ UNCHANGED <<now, lfo, moduleOnlyVars, dragVars, hostVars>>

\* drift ranges and depth multipliers callers pass: the module's 5 cents,
\* and ranges whose sine peaks leave [-10, 10] cents after the pulls
MaxCentsInputs == {-15, 5, 15}
DepthScales == {Scale \div 2, Scale}

\* driftConductor.getDriftCents(id, maxCents, depthScale); value holds the
\* arguments and the cents returned, in millicents
QueryDrift(id, maxCents, depthScale) ==
    /\ lastCall' = Snapshot("queryDrift", id,
                            [maxCents |-> maxCents, depthScale |-> depthScale,
                             cents |-> getDriftCents(id, maxCents, depthScale)])
    /\ LET d == getDriftCentsEffect(DriftState, id)
       IN  /\ isStarted' = d.started
           /\ startTime' = d.startTime
           /\ phaseRegistry' = d.registry
    /\ UNCHANGED <<now, lfo, moduleOnlyVars, dragVars, hostVars>>

\* time passes, up to `limit`; a timer that is due fires before the clock
\* moves on
Advance(limit) ==
    /\ now < limit
    /\ \A i \in 1 .. Len(timers) : timers[i].due > now
    /\ now' = now + 1
    /\ lastCall' = Snapshot("tick", "", 0)
    /\ UNCHANGED <<driftVars, paramVars, isDisposed, isPowered, nodes,
                   oscRefs, driftAnimationId, oscState, outputGain, tornDown,
                   timers, driftFrame, nextTimerId, callCount>>
    /\ UNCHANGED <<dragVars, hostVars, thrown, escaped>>

Tick == Advance(MaxNow)

\* values and parameter names the callers pass
ParamInputs == {-(Scale \div 2), Scale \div 2, 3 * (Scale \div 2)}
CallNames == DeclaredNames \cup {"cutoff"}
RestoreInputs ==
    {<<<<"pitch", Scale>>, <<"drift", -(Scale \div 2)>>>>,
     <<<<"warmth", 3 * (Scale \div 2)>>>>,
     <<<<"cutoff", Scale \div 2>>>>}

\* the state after new DroneOscillator(id), before any engine is initialized
InitModule ==
    /\ now = 0
    /\ lfo = FALSE
    /\ isStarted = FALSE
    /\ startTime = 0
    /\ phaseRegistry = EmptyMap
    /\ paramValues = DefaultParams
    /\ isDisposed = FALSE
    /\ isPowered = TRUE
    /\ nodes = <<>>
    /\ oscRefs = FALSE
    /\ baseFrequency = InitialBaseFrequency * 1000
    /\ driftAnimationId = 0
    /\ filterTarget = 0
    /\ oscTarget = [base |-> 0, cents |-> 0]
    /\ oscState = "stopped"
    /\ outputGain = 0
    /\ tornDown = <<>>
    /\ thrown = {}
    /\ escaped = FALSE
    /\ timers = <<>>
    /\ driftFrame = FALSE
    /\ nextTimerId = 1
    /\ lastCall = [op |-> "new", name |-> "", value |-> 0,
                   before |-> [pv |-> DefaultParams,
                               base |-> InitialBaseFrequency * 1000,
                               filt |-> 0,
                               osc |-> [base |-> 0, cents |-> 0]],
                   wasDisposed |-> FALSE, wasPowered |-> TRUE,
                   nodesBefore |-> <<>>, oscBefore |-> "stopped",
                   scheduled |-> 1,
                   drift |-> [started |-> FALSE, startTime |-> 0,
                              registry |-> EmptyMap]]
    /\ callCount = 0

NextModule ==
    \/ \E j \in Jitters : Initialize(j)
    \/ \E n \in CallNames, v \in ParamInputs : SetParamImmediate(n, v)
    \/ \E e \in RestoreInputs : RestoreParams(e)
    \/ \E on \in BOOLEAN : SetPower(on)
    \/ Dispose
    \/ \E i \in 1 .. Len(timers) : StopOscillatorsTimer(i)
    \/ \E i \in 1 .. Len(timers) : SuperDisposeTimer(i)
    \/ DriftFrame
    \/ \E i \in 1 .. Len(timers) : DriftTimer(i)
    \/ DriftInitialize
    \/ DriftStart
    \/ Tick

\* The life of one module up to two fade windows after time 0, so that a
\* second dispose() can come after the teardown of the first: the calls of
\* its owner (parameter writes with a value that differs from every stored
\* one), its timers and its drift loop, with the drift engine left as
\* constructed.
LifecycleInputs == {3 * (Scale \div 2)}
\* the engine is never started here, so the phase offset is never read
LifecycleJitters == {49}

NextLifecycle ==
    \/ \E j \in LifecycleJitters : Initialize(j)
    \/ \E n \in DeclaredNames, v \in LifecycleInputs : SetParamImmediate(n, v)
    \/ \E on \in BOOLEAN : SetPower(on)
    \/ Dispose
    \/ \E i \in 1 .. Len(timers) : StopOscillatorsTimer(i)
    \/ \E i \in 1 .. Len(timers) : SuperDisposeTimer(i)
    \/ DriftFrame
    \/ \E i \in 1 .. Len(timers) : DriftTimer(i)
    \/ Advance(MaxFadeNow)

\* The drift engine alone: its lifecycle calls (bounded by MaxCalls), its
\* registry and its queries (the engine's fields take finitely many values)
\* while time passes.
NextDrift ==
    \/ DriftInitialize
    \/ DriftStart
    \/ DriftStop
    \/ \E id \in OscillatorIds, j \in Jitters : RegisterOscillator(id, j)
    \/ \E id \in OscillatorIds : UnregisterOscillator(id)
    \/ \E id \in QueryIds : GetDriftCents(id)
    \/ Tick

\* ------------------------------------------------------------------------
\* AudioEngine
\* ------------------------------------------------------------------------
NoGain == 0

\* the engine's fields
AudioEngine == [state |-> audioState, masterGain |-> masterGain]

getDestination_Lazy(e) ==
    IF e.masterGain = NoGain
    THEN [threw |-> FALSE, result |-> 1,
          engine |-> [e EXCEPT !.masterGain = 1]]
    ELSE [threw |-> FALSE, result |-> e.masterGain, engine |-> e]

\* getDestination() on the engine's fields e: whether it threw, what it
\* returned, and the fields it left
getDestination(e) ==
    IF e.masterGain = NoGain
    THEN [threw |-> TRUE, result |-> NoGain, engine |-> e]
    ELSE [threw |-> FALSE, result |-> e.masterGain, engine |-> e]

\* what the steps of the engine and the registry leave alone
hostFrame == <<dragVars, now, driftVars, moduleOnlyVars>>

\* audioEngine.initialize(), up to its await of Tone.start()
AudioInitialize ==
    /\ audioPending' = IF audioState = "uninitialized"
                       THEN audioPending + 1 ELSE audioPending
    /\ audioPending' <= MaxPending
    /\ lastCall' = Snapshot("audioInitialize", "", AudioEngine)
    /\ UNCHANGED <<audioState, masterGain, moduleRegistry, instanceDisposed,
                   hostFrame>>

\* Tone.start() settles and initialize() continues: the master gain is
\* created and the state set, or the rejection is logged and rethrown
ToneStartSettles(resolved) ==
    /\ audioPending > 0
    /\ audioPending' = audioPending - 1
    /\ IF resolved
       THEN masterGain' = masterGain + 1 /\ audioState' = "running"
       ELSE UNCHANGED <<masterGain, audioState>>
    /\ lastCall' = Snapshot("toneStart", "", AudioEngine)
    /\ UNCHANGED <<moduleRegistry, instanceDisposed, hostFrame>>

\* audioEngine.getDestination(); value is the engine it found and what the
\* call did
GetDestination ==
    /\ LET r == getDestination(AudioEngine)
       IN  /\ audioState' = r.engine.state
           /\ masterGain' = r.engine.masterGain
           /\ lastCall' = Snapshot("getDestination", "",
                                   [engine |-> AudioEngine,
                                    pending |-> audioPending,
                                    threw |-> r.threw, result |-> r.result])
    /\ UNCHANGED <<audioPending, moduleRegistry, instanceDisposed, hostFrame>>

\* ------------------------------------------------------------------------
\* The module registry
\* ------------------------------------------------------------------------
\* ids of rack slots, and the instances their owners construct with them
RegistryIds == {"slot-a", "slot-b"}
Instances == {"a1", "a2", "b1"}
InstanceId(m) == IF m = "b1" THEN "slot-b" ELSE "slot-a"

Undefined == "undefined"

\* registerModule(module)
registerModule(registry, module) == MapSet(registry, InstanceId(module), module)

unregisterModule_DeletesOnly(registry, id) ==
    [effects |-> IF id \in DOMAIN registry THEN <<<<"delete", id>>>> ELSE <<>>,
     registry |-> [x \in DOMAIN registry \ {id} |-> registry[x]]]

\* unregisterModule(id): the calls it makes, in order, and the map it leaves
unregisterModule(registry, id) ==
    IF id \in DOMAIN registry
    THEN [effects |-> <<<<"dispose", registry[id]>>, <<"delete", id>>>>,
          registry |-> [x \in DOMAIN registry \ {id} |-> registry[x]]]
    ELSE [effects |-> <<>>, registry |-> registry]

\* getModule(id)
getModule(registry, id) ==
    IF id \in DOMAIN registry THEN registry[id] ELSE Undefined

\* the registry and the instances as a call finds them
RegistryState == [registry |-> moduleRegistry, disposed |-> instanceDisposed]

\* registerModule(module) with an instance that was just constructed or one
\* constructed earlier
RegisterModule(m) ==
    /\ moduleRegistry' = registerModule(moduleRegistry, m)
    /\ instanceDisposed' = IF m \in DOMAIN instanceDisposed THEN instanceDisposed
                           ELSE MapSet(instanceDisposed, m, FALSE)
    /\ lastCall' = Snapshot("registerModule", m, RegistryState)
    /\ UNCHANGED <<audioState, masterGain, audioPending, hostFrame>>

\* unregisterModule(id); value is the state it found and the calls it made
UnregisterModule(id) ==
    /\ LET r == unregisterModule(moduleRegistry, id)
       IN  /\ moduleRegistry' = r.registry
           /\ instanceDisposed' =
                  [m \in DOMAIN instanceDisposed |->
                      \/ instanceDisposed[m]
                      \/ \E i \in 1 .. Len(r.effects) :
                            r.effects[i] = <<"dispose", m>>]
           /\ lastCall' = Snapshot("unregisterModule", id,
                                   [before |-> RegistryState,
                                    effects |-> r.effects])
    /\ UNCHANGED <<audioState, masterGain, audioPending, hostFrame>>

\* the host application: the audio engine and the module registry
InitHost ==
    /\ audioState = "uninitialized"
    /\ masterGain = NoGain
    /\ audioPending = 0
    /\ moduleRegistry = EmptyMap
    /\ instanceDisposed = EmptyMap

NextHost ==
    \/ AudioInitialize
    \/ \E resolved \in BOOLEAN : ToneStartSettles(resolved)
    \/ GetDestination
    \/ \E m \in Instances : RegisterModule(m)
    \/ \E id \in RegistryIds : UnregisterModule(id)

\* ------------------------------------------------------------------------
\* useParamStore: hydration
\* ------------------------------------------------------------------------
\* contents of useParamStore's `modules` when hydration runs: id -> stored
\* record, the params in the order of Object.entries
Stores ==
    LET StoredOff == [params |-> <<<<"pitch", Scale>>,
                                  <<"warmth", Scale \div 2>>>>,
                      isPowered |-> FALSE]
        StoredOn == [params |-> <<<<"drift", 0>>>>, isPowered |-> TRUE]
        StoredBare == [params |-> <<>>, isPowered |-> FALSE]
    IN  {EmptyMap, ModuleId :> StoredOff, ModuleId :> StoredOn,
         ModuleId :> StoredBare, "drone-2" :> StoredOff,
         ModuleId :> StoredOn @@ "drone-2" :> StoredOff}

hydrateModuleFromStore_AnyRecord(store, id) ==
    IF DOMAIN store = {} THEN [returned |-> FALSE, calls |-> <<>>]
    ELSE LET stored == store[CHOOSE x \in DOMAIN store :
                                x = id \/ id \notin DOMAIN store]
         IN  [returned |-> TRUE,
              calls |-> [i \in 1 .. Len(stored.params) |->
                            <<"setParamImmediate", stored.params[i][1],
                              stored.params[i][2]>>]
                        \o <<<<"setPower", stored.isPowered>>>>]

\* hydrateModuleFromStore(module): what it returns and the calls it makes
\* on the module, in order
hydrateModuleFromStore(store, id) ==
    IF id \notin DOMAIN store THEN [returned |-> FALSE, calls |-> <<>>]
    ELSE LET stored == store[id]
         IN  [returned |-> TRUE,
              calls |-> [i \in 1 .. Len(stored.params) |->
                            <<"setParamImmediate", stored.params[i][1],
                              stored.params[i][2]>>]
                        \o <<<<"setPower", stored.isPowered>>>>]

\* hydrateModuleFromStore(module) with the store holding `store`; value is
\* the store, what the call returned and the calls it made
Hydrate(store) ==
    /\ callCount < MaxCalls
    /\ LET r == hydrateModuleFromStore(store, ModuleId)
           writes == SelectSeq(r.calls, LAMBDA c : c[1] = "setParamImmediate")
           powers == SelectSeq(r.calls, LAMBDA c : c[1] = "setPower")
       IN  /\ ApplyParams(restoreParams(ParamState,
                  [i \in 1 .. Len(writes) |-> <<writes[i][2], writes[i][3]>>]))
           /\ IF powers = <<>>
              THEN UNCHANGED <<isPowered, oscState, outputGain, timers,
                               nextTimerId>>
              ELSE /\ isPowered' = powers[Len(powers)][2]
                   /\ IF powers[Len(powers)][2]
                      THEN DroneStart /\ UNCHANGED <<timers, nextTimerId>>
                      ELSE DroneStop /\ UNCHANGED oscState
           /\ lastCall' = Snapshot("hydrate", ModuleId,
                                   [store |-> store, returned |-> r.returned,
                                    calls |-> r.calls])
    /\ callCount' = callCount + 1
    /\ UNCHANGED <<now, driftVars, isDisposed, nodes, oscRefs,
                   driftAnimationId, tornDown, driftFrame>>
    /\ UNCHANGED <<dragVars, hostVars, thrown, escaped>>

\* A module that is created, hydrated from the store and left running.
NextHydrate ==
    \/ \E j \in LifecycleJitters : Initialize(j)
    \/ \E store \in Stores : Hydrate(store)
    \/ \E i \in 1 .. Len(timers) : StopOscillatorsTimer(i)
    \/ DriftFrame
    \/ \E i \in 1 .. Len(timers) : DriftTimer(i)
    \/ Tick

\* The drift engine from initialize() to dispose() and on, with one
\* oscillator.
NextDriftLife ==
    \/ DriftInitialize
    \/ DriftStart
    \/ DriftStop
    \/ DriftDispose
    \/ \E j \in Jitters : RegisterOscillator(ModuleId, j)
    \/ \E id \in {ModuleId, "unknown-id"} : GetDriftCents(id)
    \/ Tick

\* The drift engine queried with every range and depth while it runs.
NextDriftQuery ==
    \/ DriftInitialize
    \/ DriftStart
    \/ \E id \in OscillatorIds, j \in Jitters : RegisterOscillator(id, j)
    \/ \E id \in QueryIds, m \in MaxCentsInputs, d \in DepthScales :
          QueryDrift(id, m, d)
    \/ Tick

\* ------------------------------------------------------------------------
\* Claims about useDrag
\* ------------------------------------------------------------------------
CallsOf(path) == {i \in 1 .. Len(emitted) : emitted[i].path = path}

\* C1: a drag session that is not interrupted by a new pointer-down calls
\* onCommit exactly once, at its end: no commit has been made while the
\* control is dragging or settling, and once the control of a mounted hook is
\* idle again the session has made exactly one commit.
C1_SingleTerminalCommit ==
    /\ sessionCommits <= 1
    /\ (Dragging \/ Settling) => sessionCommits = 0
    /\ (mounted /\ started /\ Idle) => sessionCommits = 1

\* a session with momentum has settled and committed
C1_Witness ==
    /\ mounted /\ Idle /\ lastOp = "frame"
    /\ settleFrames > 2 /\ sessionCommits = 1

\* C2: a pointer-move while dragging emits on the immediate path only:
\* exactly one onDrag call, no onCommit call.
C2_MoveNeverCommits ==
    lastOp = "move" =>
        /\ CallsOf("commit") = {}
        /\ emitted = <<Drag(valueRef)>>
        /\ sessionCommits = 0

C2_Witness ==
    /\ lastOp = "move" /\ Dragging
    /\ valueRef # dragState.startValue /\ emitted = <<Drag(valueRef)>>

\* C3: a pointer-down that arrives while momentum is settling cancels the
\* pending frame (no frame is pending while dragging, so the interrupted
\* momentum can never reach its commit) and anchors the new session at the
\* last animated value; the anchor is stated for interleavings of the
\* pointer-down with animation frames, i.e. when no initialValue update
\* came in between.
C3_InterruptCancelsMomentum ==
    /\ Dragging => rafPending = {}
    /\ (Dragging /\ interrupted.settling) => sessionCommits = 0
    /\ (Dragging /\ interrupted.settling /\ ~interrupted.synced) =>
           dragState.startValue = interrupted.last

\* a pointer-down has interrupted a momentum that had already run frames
C3_Witness ==
    /\ Dragging /\ lastOp = "down"
    /\ interrupted.settling /\ ~interrupted.synced
    /\ interrupted.frames > 1
    /\ dragState.startValue = interrupted.last

\* C4: on pointer-up, when momentum is disabled or |velocity| is not above
\* the release threshold 0.001, the current value is committed once during
\* the pointer-up and no animation frame is scheduled.
C4_ReleaseWithoutMomentum ==
    (lastOp = "up" /\ (~momentum \/ Abs(velocityRef) <= ReleaseThreshold)) =>
        /\ emitted = <<Commit(valueRef)>>
        /\ rafPending = {}
        /\ sessionCommits = 1

\* released with momentum enabled and a velocity that is not zero but not
\* above the release threshold
C4_Witness ==
    /\ lastOp = "up" /\ momentum
    /\ velocityRef # 0 /\ Abs(velocityRef) > StopThreshold
    /\ Abs(velocityRef) <= ReleaseThreshold
    /\ emitted = <<Commit(valueRef)>>

\* the other case of C4: momentum disabled, velocity above the threshold
C4_WitnessNoMomentum ==
    /\ lastOp = "up" /\ ~momentum
    /\ Abs(velocityRef) > ReleaseThreshold
    /\ emitted = <<Commit(valueRef)>>

\* C5: once settling has started and no new pointer-down arrives, the
\* momentum loop stops after a bounded number of frames: never more than
\* MaxSettleFrames frames run after a release, the frame that finds the
\* velocity below the stop threshold schedules nothing, and under a browser
\* that keeps running pending frames every settling control leaves settling.
C5_FramesBounded ==
    /\ settleFrames <= MaxSettleFrames
    /\ (lastOp = "frame" /\ CallsOf("commit") # {}) =>
           (rafPending = {} /\ velocityRef = 0)

C5_MomentumTerminates ==
    /\ []C5_FramesBounded
    /\ (Settling ~> ~Settling)

C5_Witness ==
    /\ lastOp = "frame" /\ Idle /\ mounted
    /\ settleFrames > 5 /\ velocityRef = 0
    /\ momentumDecay = SlowMomentumDecay

\* C6: every value emitted on either path lies in [0,1].
C6_EmittedInUnitRange ==
    \A i \in 1 .. Len(emitted) :
        emitted[i].value >= 0 /\ emitted[i].value <= Scale

\* a move whose unclamped value lies above 1 was emitted as 1
C6_Witness ==
    /\ lastOp = "move"
    /\ dragState.startValue
         + (dragState.startY - lastYRef) * sensitivity > Scale
    /\ emitted = <<Drag(Scale)>>

\* C7: whenever onCommit is called, its value is the most recent value
\* emitted on the immediate path in that session, or the anchor value when
\* nothing was emitted.
C7_CommitEqualsLastImmediate ==
    \A i \in CallsOf("commit") :
        emitted[i].value = (IF lastImmediate = None
                            THEN dragState.startValue
                            ELSE lastImmediate)

\* C36: for a control, at most one momentum animation frame is pending at
\* any time, and none is pending while the control is in the dragging
\* state, under any interleaving of pointer-down, pointer-move, pointer-up
\* and animation frames.
C36_AtMostOnePendingFrame ==
    /\ Cardinality(rafPending) <= 1
    /\ rafPending \subseteq {animationRef}
    /\ dragState.isDragging => rafPending = {}

\* a frame is pending after the release of a session whose pointer-down
\* had cancelled the frame of the session before
C36_Witness ==
    /\ lastOp = "up" /\ interrupted.settling /\ interrupted.frames > 0
    /\ Cardinality(rafPending) = 1 /\ ~dragState.isDragging

\* C39: when a control is unmounted while its momentum is settling, the
\* pending animation frame is cancelled and neither onDrag nor onCommit is
\* called after the unmount: the interrupted session ends without a commit.
C39_UnmountEndsMomentum ==
    /\ [](~mounted =>
            (rafPending = {} /\ lastOp = "unmount" /\ emitted = <<>>))
    /\ [][(Settling /\ mounted /\ ~mounted') =>
            (/\ rafPending' = {}
             /\ sessionCommits = 0 /\ sessionCommits' = 0)]_vars

\* an unmount after frames of a momentum ran and before it settled
C39_Witness ==
    /\ ~mounted /\ started /\ ~dragState.isDragging
    /\ settleFrames > 0 /\ velocityRef # 0 /\ animationRef # 0
    /\ lastImmediate # None /\ sessionCommits = 0

\* ------------------------------------------------------------------------
\* Claims about the module
\* ------------------------------------------------------------------------
\* clamp01 as the contract states it
UnitClamp(v) == IF v < 0 THEN 0 ELSE IF v > Scale THEN Scale ELSE v

\* C8: for every declared parameter name and every input value v, right
\* after setParamImmediate(name, v) on a module that is not disposed,
\* getParam(name) returns clamp01(v).
C8_SetParamStoresClamped ==
    (/\ lastCall.op = "setParamImmediate"
     /\ lastCall.name \in DeclaredNames
     /\ ~lastCall.wasDisposed) =>
        getParam(lastCall.name) = UnitClamp(lastCall.value)

\* a value below 0 was written to a declared parameter of an initialized,
\* live module and reads back as 0
C8_Witness ==
    /\ lastCall.op = "setParamImmediate"
    /\ lastCall.name = "warmth" /\ ~lastCall.wasDisposed
    /\ lastCall.value < 0 /\ oscRefs
    /\ getParam("warmth") = 0
    /\ lastCall.before.pv["warmth"] # 0

\* C9: setParamImmediate with a name the module does not declare leaves the
\* parameter map, the base frequency and the node parameters unchanged.
C9_UnknownNameIgnored ==
    (lastCall.op = "setParamImmediate" /\ lastCall.name \notin DeclaredNames)
        => ParamState = lastCall.before

\* C10: in every reachable state the key set of the parameter map is exactly
\* the set of declared parameter names.
C10_KeysAreDeclared == DOMAIN paramValues = DeclaredNames

\* ------------------------------------------------------------------------
\* Claims about disposal
\* ------------------------------------------------------------------------
\* dispose() has been called: super.dispose() has run or is scheduled
DisposeCalled ==
    isDisposed \/ \E i \in 1 .. Len(timers) : timers[i].kind = "superDispose"

\* C11: isDisposed is true as soon as dispose() returns, before the fade
\* window elapses and before node teardown.
C11_DisposeSetsFlagAtOnce == lastCall.op = "dispose" => isDisposed

\* C12: a setParamImmediate call that arrives after dispose() was called,
\* during the fade or after teardown, changes no stored value, no base
\* frequency and no node parameter.
C12_WriteAfterDisposeIgnored ==
    (lastCall.op = "setParamImmediate" /\ DisposeCalled)
        => ParamState = lastCall.before

\* C13: a setPower call on a module whose dispose() was already called
\* leaves the power flag unchanged, starts or stops no oscillator and
\* schedules no timer.
C13_PowerAfterDisposeIgnored ==
    (lastCall.op = "setPower" /\ DisposeCalled) =>
        /\ isPowered = lastCall.wasPowered
        /\ oscState = lastCall.oscBefore
        /\ nextTimerId = lastCall.scheduled

\* C14: a second dispose(), during the fade of the first or after its
\* teardown, ends where one dispose() ends: neither the second call nor its
\* deferred super.dispose() changes the disposed flag or the node list (or
\* the parameter map), the flag is true once any super.dispose() has run,
\* and no error leaves it.
C14_SecondDisposeChangesNothing ==
    /\ lastCall.op = "superDisposeTimer" => (isDisposed /\ ~escaped)
    /\ (lastCall.op = "superDisposeTimer" /\ lastCall.wasDisposed) =>
           /\ nodes = lastCall.nodesBefore
           /\ paramValues = lastCall.before.pv
    /\ (lastCall.op = "dispose" /\ lastCall.wasDisposed) =>
           /\ isDisposed
           /\ nodes = lastCall.nodesBefore

\* the super.dispose() of a second dispose() ran two fade windows after
\* time 0 on an initialized module that was already torn down
C14_Witness ==
    /\ lastCall.op = "superDisposeTimer" /\ lastCall.wasDisposed
    /\ now >= 2 * FadeDelay
    /\ oscRefs /\ nodes = <<>> /\ Len(tornDown) > 0

\* the second dispose() itself, called after the teardown of the first
C14_WitnessLateCall ==
    /\ lastCall.op = "dispose" /\ lastCall.wasDisposed
    /\ oscRefs /\ nodes = <<>> /\ Len(tornDown) > 0

\* C15: once isDisposed is true the node list stays empty, whatever is
\* invoked afterwards.
C15_DisposedKeepsNoNodes == isDisposed => nodes = <<>>

\* C16: an error thrown while disconnecting or disposing a node is caught:
\* the teardown still tears down every other node, in reverse order of
\* creation, and ends with disposed = true and an empty node list.
C16_TeardownSurvivesErrors ==
    (lastCall.op = "superDisposeTimer" /\ ~lastCall.wasDisposed) =>
        LET expected == SelectSeq(Reverse(lastCall.nodesBefore),
                                  LAMBDA n : n \notin thrown)
            first == Len(tornDown) - Len(expected) + 1
        IN  /\ isDisposed
            /\ nodes = <<>>
            /\ ~escaped
            /\ first >= 1
            /\ SubSeq(tornDown, first, Len(tornDown)) = expected

\* a teardown in which two nodes threw and the other four were torn down
C16_Witness ==
    /\ lastCall.op = "superDisposeTimer" /\ ~lastCall.wasDisposed
    /\ thrown = {"filter", "output"}
    /\ tornDown = <<"gain", "osc3", "osc2", "osc1">>
    /\ isDisposed /\ nodes = <<>>

\* C28: after dispose() was called, no fade-driven timer callback (the
\* power-off oscillator-stop timer or the dispose fade timer) operates on
\* the module's nodes once they have been torn down, under any sequence and
\* timing of setPower and dispose calls.
C28_NoTimerOnTornDownNodes ==
    /\ lastCall.op = "stopOscillatorsTimer" =>
           ~(lastCall.wasDisposed /\ lastCall.nodesBefore = <<>>)
    /\ (lastCall.op = "superDisposeTimer" /\ lastCall.wasDisposed) =>
           nodes = lastCall.nodesBefore

\* C29: after dispose() is called the drift-refresh loop is halted for
\* good: every tick of the loop that runs after the call exits without
\* refreshing the oscillator frequencies and without rescheduling itself,
\* whatever phase of its timer/frame cycle the loop was in.
C29_LoopHaltsAtDispose ==
    (lastCall.op = "driftFrame" /\ DisposeCalled) =>
        /\ ParamState = lastCall.before
        /\ nextTimerId = lastCall.scheduled
        /\ \A i \in 1 .. Len(timers) : timers[i].kind # "drift"

\* C30: a disposed module stays registered with the drift engine for the
\* whole fade window: unregisterOscillator for its id happens only after
\* the fade delay has elapsed, not at the dispose() call.
C30_RegisteredDuringFade ==
    (/\ ModuleId \in DOMAIN lastCall.drift.registry
     /\ \/ lastCall.op = "dispose"
        \/ \E i \in 1 .. Len(timers) :
              timers[i].kind = "superDispose" /\ timers[i].due > now) =>
        ModuleId \in DOMAIN phaseRegistry

\* C31: a disposed module is unregistered from the drift engine before its
\* nodes are torn down (the id is removed at the dispose() call, while the
\* teardown that call scheduled is still to come), and no tick of the drift
\* loop refreshes the module after its nodes have been torn down.
C31_UnregisteredBeforeTeardown ==
    /\ lastCall.op = "dispose" =>
           /\ ModuleId \notin DOMAIN phaseRegistry
           /\ nodes = lastCall.nodesBefore
           /\ \E i \in 1 .. Len(timers) :
                 /\ timers[i].kind = "superDispose"
                 /\ timers[i].id >= lastCall.scheduled
                 /\ timers[i].due > now
    /\ (lastCall.op = "driftFrame" /\ lastCall.wasDisposed) =>
           /\ ParamState = lastCall.before
           /\ nextTimerId = lastCall.scheduled

\* a frame of the drift loop that was pending through the fade runs after
\* the teardown of an initialized module
C31_Witness ==
    /\ lastCall.op = "driftFrame" /\ lastCall.wasDisposed
    /\ Len(tornDown) = Len(CreatedNodes) /\ lastCall.nodesBefore = <<>>
    /\ ModuleId \notin DOMAIN phaseRegistry

\* the dispose() of an initialized module that was registered
C31_WitnessDispose ==
    /\ lastCall.op = "dispose" /\ ~lastCall.wasDisposed
    /\ ModuleId \in DOMAIN lastCall.drift.registry
    /\ nodes = CreatedNodes

\* C32: the teardown of a module disconnects and disposes its nodes in
\* exactly the reverse of their creation order, visiting each node once.
C32_TeardownInReverseOrder ==
    (lastCall.op = "superDisposeTimer" /\ ~lastCall.wasDisposed) =>
        LET created == lastCall.nodesBefore
            Pos(n) == CHOOSE k \in 1 .. Len(created) : created[k] = n
            Visits(n) == Cardinality({i \in 1 .. Len(tornDown) :
                                         tornDown[i] = n})
                         + (IF n \in thrown THEN 1 ELSE 0)
        IN  /\ \A k \in 1 .. Len(created) : Visits(created[k]) = 1
            /\ \A i \in 1 .. Len(tornDown) :
                  \E k \in 1 .. Len(created) : created[k] = tornDown[i]
            /\ \A i, j \in 1 .. Len(tornDown) :
                  i < j => Pos(tornDown[i]) > Pos(tornDown[j])
            /\ thrown = {} => Len(tornDown) = Len(created)

\* the teardown of an initialized module in which no node threw
C32_Witness ==
    /\ lastCall.op = "superDisposeTimer" /\ ~lastCall.wasDisposed
    /\ lastCall.nodesBefore =
           <<"osc1", "osc2", "osc3", "filter", "gain", "output">>
    /\ thrown = {}
    /\ tornDown = <<"output", "gain", "filter", "osc3", "osc2", "osc1">>

\* C35: for a module that is not disposed, after at least one setPower
\* call with any timing, once every pending fade timer has fired the
\* oscillators are running if and only if the power flag is true.
C35_OscillatorsFollowPower ==
    (/\ lastCall.op \in {"setPower", "stopOscillatorsTimer"}
     /\ oscRefs /\ ~DisposeCalled
     /\ \A i \in 1 .. Len(timers) : timers[i].kind # "stopOscillators") =>
        ((oscState = "started") <=> isPowered)

\* ------------------------------------------------------------------------
\* Claims about the drift engine
\* ------------------------------------------------------------------------
\* C17: getDriftCents for an id that is not registered returns 0, whether
\* or not the engine is started and whatever the elapsed time.
C17_UnknownIdIsNeutral ==
    (lastCall.op = "getDriftCents" /\ lastCall.name \notin DOMAIN phaseRegistry)
        => lastCall.value = 0

\* C18: registerOscillator for an id that is already registered returns the
\* offset assigned at first registration and leaves the map unchanged, and
\* no registration or unregistration touches the offset of another id.
C18_RegisterIsIdempotent ==
    /\ (/\ lastCall.op = "registerOscillator"
        /\ lastCall.name \in DOMAIN lastCall.drift.registry) =>
           /\ phaseRegistry = lastCall.drift.registry
           /\ lastCall.value = lastCall.drift.registry[lastCall.name]
    /\ lastCall.op \in {"registerOscillator", "unregisterOscillator"} =>
           \A x \in DOMAIN lastCall.drift.registry \ {lastCall.name} :
              /\ x \in DOMAIN phaseRegistry
              /\ phaseRegistry[x] = lastCall.drift.registry[x]

\* a repeat registration after another id was registered: the jitter drawn
\* by a fresh assignment at this count would give another offset
C18_Witness ==
    /\ lastCall.op = "registerOscillator" /\ lastCall.name = ModuleId
    /\ DOMAIN lastCall.drift.registry = OscillatorIds
    /\ phaseRegistry[ModuleId] \in {49, 950}
    /\ lastCall.value = phaseRegistry[ModuleId]

\* C19: stop() leaves the phase-assignment map unchanged, every query made
\* while the engine is not started returns 0, and start() leaves the map
\* unchanged too, so an offset survives a stop/start cycle.
C19_StopKeepsOffsets ==
    /\ lastCall.op = "driftStop" =>
           (~isStarted /\ phaseRegistry = lastCall.drift.registry)
    /\ lastCall.op = "driftStart" => phaseRegistry = lastCall.drift.registry
    /\ (lastCall.op = "getDriftCents" /\ ~isStarted) => lastCall.value = 0

\* a query for a registered id after the engine ran and was stopped, at a
\* time where the running engine returns a drift that is not 0
C19_Witness ==
    /\ lastCall.op = "getDriftCents" /\ ~isStarted /\ lfo
    /\ startTime > 0 /\ now > startTime
    /\ lastCall.name \in DOMAIN phaseRegistry
    /\ lastCall.value = 0

\* the stop() of a running engine with a registered oscillator
C19_WitnessStop ==
    /\ lastCall.op = "driftStop" /\ lastCall.drift.started
    /\ ModuleId \in DOMAIN phaseRegistry

\* C20: start() on a started engine leaves the start timestamp and the
\* started flag unchanged; the timestamp is recorded only by a start() that
\* finds the engine not started, and by no other call.
C20_StartIsIdempotent ==
    /\ (lastCall.op = "driftStart" /\ lastCall.drift.started) =>
           (isStarted /\ startTime = lastCall.drift.startTime)
    /\ (lastCall.op = "driftStart" /\ ~lastCall.drift.started /\ lfo) =>
           (isStarted /\ startTime = now)
    /\ lastCall.op # "driftStart" => startTime = lastCall.drift.startTime

\* start() called again after time has passed since the first start()
C20_Witness ==
    /\ lastCall.op = "driftStart" /\ lastCall.drift.started
    /\ now > startTime /\ isStarted

\* the cents a query returns for a phase offset when no time has elapsed
\* since the start timestamp, in millicents
CentsAtStart(phaseOffset) ==
    softSnapToInterval(TruncDiv(Sin(phaseOffset % 1000) * 5 * (Scale \div 1000),
                                1000))

\* C21: after stop() followed by start() on an initialized engine the start
\* timestamp is the time of the restart, so a query made immediately after
\* it is computed with elapsed time 0, not with the time since the first
\* start.
C21_RestartResetsElapsed ==
    (lastCall.op = "driftStart" /\ ~lastCall.drift.started /\ lfo) =>
        /\ startTime = now
        /\ \A id \in QueryIds :
              getDriftCents(id, 5, Scale) =
                  CentsAtStart(IF id \in DOMAIN phaseRegistry
                               THEN phaseRegistry[id] ELSE 0)

\* a restart after the engine ran from an earlier start and was stopped,
\* with a registered oscillator whose drift at the time since the first
\* start differs from its drift at elapsed time 0
C21_Witness ==
    /\ lastCall.op = "driftStart" /\ ~lastCall.drift.started /\ isStarted
    /\ lastCall.drift.startTime > 0 /\ now > lastCall.drift.startTime + 1
    /\ ModuleId \in DOMAIN phaseRegistry
    /\ getDriftCents(ModuleId, 5, Scale) = CentsAtStart(phaseRegistry[ModuleId])
    /\ CentsAtStart(phaseRegistry[ModuleId]
                    + (now - lastCall.drift.startTime) * PhasePerTick)
           # CentsAtStart(phaseRegistry[ModuleId])

\* distance on the circle of turns between an offset (1/1000 turn) and
\* k thirds of a turn, in 1/3000 turn
ThirdsDistance(offset, k) ==
    LET d == Abs(3 * offset - 1000 * k) % 3000
    IN  Min2(d, 3000 - d)

\* C22: on an empty registry, the first three distinct ids registered
\* receive offsets within 0.05 turn (on the circle) of 0, 1/3 and 2/3, for
\* every jitter the engine can draw.
C22_OffsetsNearThirds ==
    (/\ lastCall.op = "registerOscillator"
     /\ lastCall.name \notin DOMAIN lastCall.drift.registry) =>
        ThirdsDistance(lastCall.value,
                       Cardinality(DOMAIN lastCall.drift.registry)) <= 150

\* C23: for every id, maxCents, depthScale and elapsed time, the value
\* getDriftCents returns lies in [-10, 10] cents.
C23_DriftWithinTenCents ==
    lastCall.op = "queryDrift" =>
        (lastCall.value.cents >= -10000 /\ lastCall.value.cents <= 10000)

\* the sine scaled by the arguments, in millicents, for the query observed
RawCentsOfQuery ==
    LET offset == IF lastCall.name \in DOMAIN phaseRegistry
                  THEN phaseRegistry[lastCall.name] ELSE 0
        phase == ((now - startTime) * PhasePerTick + offset) % 1000
    IN  TruncDiv(Sin(phase) * lastCall.value.maxCents
                     * (lastCall.value.depthScale \div 1000), 1000)

\* a query on the running engine whose sine, scaled and pulled toward the
\* attractors, is above 10 cents, and one where it is below -10 cents
C23_Witness ==
    /\ lastCall.op = "queryDrift" /\ isStarted
    /\ RawCentsOfQuery > 14000
    /\ lastCall.value.cents = 10000

C23_WitnessLow ==
    /\ lastCall.op = "queryDrift" /\ isStarted
    /\ RawCentsOfQuery < -14000
    /\ lastCall.value.cents = -10000

\* C33: getDriftCents is a pure query: it leaves the started flag, the
\* start timestamp and the phase-assignment map unchanged, so a query for
\* the same id and arguments at the same clock time returns the same value
\* however many queries were made in between.
C33_QueryIsPure ==
    lastCall.op = "getDriftCents" =>
        /\ DriftState = lastCall.drift
        /\ getDriftCents(lastCall.name, 5, Scale) = lastCall.value

\* a query for an id that is not registered, on the running engine at a
\* time where the value is not 0, with another id registered
C33_Witness ==
    /\ lastCall.op = "getDriftCents" /\ isStarted /\ now > startTime
    /\ lastCall.name \notin DOMAIN phaseRegistry
    /\ DOMAIN phaseRegistry # {}
    /\ lastCall.value # 0

\* the registry size (0, 1 or 2) whose base phase an offset was drawn
\* around
BaseSlot(offset) ==
    CHOOSE k \in 0 .. 2 :
        \E j \in Jitters : offset = (330 * k + j + 1000) % 1000

\* C34: after any sequence of registerOscillator and unregisterOscillator
\* calls, no two ids registered at the same time were assigned the same
\* base phase slot (the phase before jitter).
C34_BaseSlotsDistinct ==
    \A x, y \in DOMAIN phaseRegistry :
        x # y => BaseSlot(phaseRegistry[x]) # BaseSlot(phaseRegistry[y])

\* C38: in every reachable state of the drift engine, started implies
\* initialized: start() before initialize() or after dispose() leaves the
\* engine not started, every query in that state returns 0, and dispose()
\* also empties the phase-assignment map.
C38_StartedImpliesInitialized ==
    /\ isStarted => lfo
    /\ (lastCall.op = "driftStart" /\ ~lfo) =>
           (~isStarted /\ startTime = lastCall.drift.startTime)
    /\ (lastCall.op = "getDriftCents" /\ ~lfo) => lastCall.value = 0
    /\ lastCall.op = "driftDispose" =>
           (~lfo /\ ~isStarted /\ phaseRegistry = EmptyMap)

\* a start() after the dispose() of an engine that had run
C38_Witness ==
    /\ lastCall.op = "driftStart" /\ ~lfo /\ ~isStarted
    /\ startTime > 0 /\ now > startTime

\* the dispose() of a running engine with registered oscillators
C38_WitnessDispose ==
    /\ lastCall.op = "driftDispose" /\ lastCall.drift.started
    /\ DOMAIN lastCall.drift.registry # {}
    /\ phaseRegistry = EmptyMap

\* ------------------------------------------------------------------------
\* Claims about the module registry and the audio engine
\* ------------------------------------------------------------------------
\* C24: after any sequence of registerModule and unregisterModule calls, no
\* two module instances with the same id are both not disposed: a live
\* instance is never displaced from the registry without being disposed.
C24_OneLiveInstancePerId ==
    \A m1, m2 \in DOMAIN instanceDisposed :
        (m1 # m2 /\ InstanceId(m1) = InstanceId(m2)) =>
            (instanceDisposed[m1] \/ instanceDisposed[m2])

\* C25: unregisterModule(id) for a registered id calls dispose() on that
\* instance and then deletes the entry, after which getModule(id) is
\* undefined; for an absent id it changes nothing and disposes nothing.
C25_UnregisterDisposesThenDeletes ==
    lastCall.op = "unregisterModule" =>
        LET id == lastCall.name
            before == lastCall.value.before
        IN  IF id \in DOMAIN before.registry
            THEN /\ lastCall.value.effects =
                        <<<<"dispose", before.registry[id]>>, <<"delete", id>>>>
                 /\ instanceDisposed[before.registry[id]]
                 /\ getModule(moduleRegistry, id) = Undefined
            ELSE /\ lastCall.value.effects = <<>>
                 /\ moduleRegistry = before.registry
                 /\ instanceDisposed = before.disposed

\* the removal of a live registered instance while another id stays
\* registered
C25_Witness ==
    /\ lastCall.op = "unregisterModule" /\ lastCall.name = "slot-a"
    /\ "slot-a" \in DOMAIN lastCall.value.before.registry
    /\ ~lastCall.value.before.disposed[lastCall.value.before.registry["slot-a"]]
    /\ getModule(moduleRegistry, "slot-b") = "b1"

\* the removal of an id that is absent while other instances are live
C25_WitnessAbsent ==
    /\ lastCall.op = "unregisterModule" /\ lastCall.name = "slot-b"
    /\ "slot-b" \notin DOMAIN lastCall.value.before.registry
    /\ getModule(moduleRegistry, "slot-a") = "a1" /\ ~instanceDisposed["a1"]

\* C26: getDestination before the audio engine has completed initialize()
\* throws and leaves the engine unchanged; after a successful initialize()
\* it returns the master gain.
C26_DestinationNeedsInitialize ==
    lastCall.op = "getDestination" =>
        LET found == lastCall.value.engine
        IN  /\ AudioEngine = found
            /\ IF found.state = "uninitialized"
               THEN lastCall.value.threw /\ found.masterGain = NoGain
               ELSE /\ ~lastCall.value.threw
                    /\ found.masterGain # NoGain
                    /\ lastCall.value.result = found.masterGain

\* a lookup while initialize() is waiting for Tone.start(), and a lookup
\* after initialize() completed
C26_Witness ==
    /\ lastCall.op = "getDestination" /\ lastCall.value.pending > 0
    /\ lastCall.value.engine.state = "uninitialized" /\ lastCall.value.threw

C26_WitnessReady ==
    /\ lastCall.op = "getDestination" /\ audioState = "running"
    /\ lastCall.value.result = masterGain /\ masterGain # NoGain

\* C27: hydrateModuleFromStore returns true exactly when a stored record
\* exists for the module's id; then it calls setParamImmediate once per
\* stored parameter and after that setPower exactly once with the stored
\* power flag; with no record it returns false and calls nothing on the
\* module.
C27_HydrateAppliesStoredRecord ==
    lastCall.op = "hydrate" =>
        LET store == lastCall.value.store
            calls == lastCall.value.calls
        IN  /\ lastCall.value.returned = (ModuleId \in DOMAIN store)
            /\ IF ModuleId \in DOMAIN store
               THEN LET stored == store[ModuleId]
                        n == Len(stored.params)
                    IN  /\ Len(calls) = n + 1
                        /\ \A i \in 1 .. n :
                              calls[i] = <<"setParamImmediate",
                                           stored.params[i][1],
                                           stored.params[i][2]>>
                        /\ calls[n + 1] = <<"setPower", stored.isPowered>>
                        /\ isPowered = stored.isPowered
                        /\ \A i \in 1 .. n :
                              paramValues[stored.params[i][1]] =
                                  clamp01(stored.params[i][2])
               ELSE /\ calls = <<>>
                    /\ ParamState = lastCall.before
                    /\ isPowered = lastCall.wasPowered
                    /\ nextTimerId = lastCall.scheduled

\* a hydration from a record with two parameters and power off while the
\* store also holds another module, on an initialized module that was on
C27_Witness ==
    /\ lastCall.op = "hydrate" /\ lastCall.value.returned
    /\ Len(lastCall.value.calls) = 3
    /\ lastCall.wasPowered /\ ~isPowered /\ oscRefs
    /\ paramValues["pitch"] = Scale

\* a hydration with a store that holds a record of another module only
C27_WitnessNoRecord ==
    /\ lastCall.op = "hydrate" /\ ~lastCall.value.returned
    /\ DOMAIN lastCall.value.store = {"drone-2"}

\* C37: AudioEngine.initialize is one-time: under any interleaving of
\* overlapping initialize() calls the master gain is created at most once
\* and the state leaves "uninitialized" once, and a failed initialize
\* leaves the state "uninitialized".
C37_InitializeOnce ==
    /\ masterGain \in {NoGain, 1}
    /\ (audioState = "uninitialized") <=> (masterGain = NoGain)
    /\ (lastCall.op = "toneStart"
          /\ lastCall.value.state = "uninitialized"
          /\ audioState = "uninitialized") => masterGain = NoGain

\* ------------------------------------------------------------------------
\* Specifications
\* ------------------------------------------------------------------------
\* one control, with the module untouched
InitControl == InitDrag /\ InitModule /\ InitHost

SpecDrag == InitControl /\ [][NextDrag]_vars

\* the browser keeps running animation frames
FairSpecDrag == SpecDrag /\ WF_vars(\E id \in FrameIds : AnimationFrame(id))

\* one module and the drift engine, with the control of the default props
\* untouched
InitDragDefault ==
    /\ InitDrag
    /\ initialValue = Scale
    /\ sensitivity = DefaultSensitivity
    /\ momentum = TRUE
    /\ momentumDecay = DefaultMomentumDecay

InitEngine == InitDragDefault /\ InitModule /\ InitHost

SpecModule == InitEngine /\ [][NextModule]_vars

\* the drift engine
SpecDrift == InitEngine /\ [][NextDrift]_vars

\* the drift engine through its lifecycle
SpecDriftLife == InitEngine /\ [][NextDriftLife]_vars

\* the drift engine under queries
SpecDriftQuery == InitEngine /\ [][NextDriftQuery]_vars

\* the audio engine and the module registry
SpecHost == InitEngine /\ [][NextHost]_vars

\* hydration of one module
SpecHydrate == InitEngine /\ [][NextHydrate]_vars

\* one module from construction to teardown
SpecLifecycle == InitEngine /\ [][NextLifecycle]_vars

====
